---- MODULE Spec2Model ----
(***************************************************************************)
(* Asset issuance and transfer orchestration of the NFT marketplace.       *)
(*                                                                         *)
(* The transfer operation is transferNFT of node-script/colosseum-nft-     *)
(* test.js (the same steps are inlined in main of the mint-and-transfer    *)
(* script).  The issuance operation runs in the backend (backend/src/      *)
(* nft.rs), which is not part of the sources at hand: it is modelled from  *)
(* section 4.4 of the design.  The ledger executes each submitted          *)
(* transaction atomically, with the semantics of the token and associated- *)
(* token-account instructions the scripts build.                           *)
(***************************************************************************)
EXTENDS Integers, FiniteSets, Sequences, TLC

VARIABLES
    ledger,         \* [mints, metadata, accounts]: the ledger's accounts
    generated,      \* asset addresses generated by issuance calls so far
    pc,             \* position of every call
    args,           \* arguments of every call
    toAccountInfo,  \* transferNFT's local: did the destination account exist
    txs,            \* the transaction every call submitted, with its status
    result,         \* what every call returned or threw
    verified,       \* what verifyNFTTransfer found after a transfer returned
    sequenceNumber, \* the sequence number every call's submission carries
    descriptor,     \* the name and symbol the run's mint requests carry
    fees,           \* the rent-exemption minimums and the estimates made from them
    run             \* the script that drives the calls, and where it stands

vars == <<ledger, generated, pc, args, toAccountInfo, txs, result, verified,
          sequenceNumber, descriptor,
                   fees, run>>

----------------------------------------------------------------------------
(* Bounds *)

NumIdentities == 2
MaxAssets == 2
MaxCalls == 2

Identity == 1..NumIdentities
Asset == 1..MaxAssets
Call == 1..MaxCalls

\* The backend's signing identity: pays rent and fees of every issuance.
IssuerIdentity == 1

NoIdentity == 0

----------------------------------------------------------------------------
(* Addresses and the signature verifier *)

getAddressOfOwner(mint, owner) == <<owner>>

\* The holding account of (mint, owner): a derived address, never chosen.
getAssociatedTokenAddress(mint, owner) == <<mint, owner>>

\* A signed assertion is the identity whose key produced the signature and
\* whether message and signature arrive unmodified and well-formed.
Assertion == [signer : Identity, intact : BOOLEAN]

verifyIntactOnly(assertion, identity) == assertion.intact

verify(assertion, identity) ==
    assertion.intact /\ assertion.signer = identity

----------------------------------------------------------------------------
(* The ledger: instructions *)

Ok(st) == [ok |-> TRUE, st |-> st, reason |-> "none"]
Rejected(st, why) == [ok |-> FALSE, st |-> st, reason |-> why]

\* Associated-token-account program, Create: the account must be the derived
\* address of (mint, owner) and must not exist yet.
CreateAssociatedTokenAccount(st, i, signers, txid) ==
    IF i.ata # getAssociatedTokenAddress(i.mint, i.owner)
    THEN Rejected(st, "InvalidSeeds")
    ELSE IF i.ata \in DOMAIN st.accounts
    THEN Rejected(st, "IllegalOwner: account already exists")
    ELSE IF i.mint \notin DOMAIN st.mints
    THEN Rejected(st, "InvalidMint")
    ELSE IF i.payer \notin signers
    THEN Rejected(st, "MissingRequiredSignature")
    ELSE Ok([st EXCEPT !.accounts = @ @@ (i.ata :>
                [mint |-> i.mint, owner |-> i.owner, amount |-> 0,
                 payer |-> i.payer, createdBy |-> txid])])

\* A transfer whose source is its destination is validated and moves nothing.
SelfTransferBroken(st, i) ==
    [st EXCEPT !.accounts[i.destination].amount =
                   st.accounts[i.destination].amount + i.amount]

SelfTransfer(st, i) == st

\* Token program, Transfer, closing the source when nothing is left in it.
TokenTransferClosingSource(st, i, signers) ==
    IF i.source \notin DOMAIN st.accounts \/ i.destination \notin DOMAIN st.accounts
    THEN Rejected(st, "InvalidAccountData")
    ELSE IF st.accounts[i.source].amount < i.amount
    THEN Rejected(st, "InsufficientFunds")
    ELSE IF st.accounts[i.source].mint # st.accounts[i.destination].mint
    THEN Rejected(st, "MintMismatch")
    ELSE IF st.accounts[i.source].owner # i.owner
    THEN Rejected(st, "OwnerMismatch")
    ELSE IF i.owner \notin signers
    THEN Rejected(st, "MissingRequiredSignature")
    ELSE IF i.source = i.destination
    THEN Ok(SelfTransfer(st, i))
    ELSE LET moved == [st EXCEPT !.accounts[i.source].amount = @ - i.amount,
                                 !.accounts[i.destination].amount = @ + i.amount]
         IN  IF moved.accounts[i.source].amount = 0
             THEN Ok([moved EXCEPT !.accounts =
                        [a \in (DOMAIN moved.accounts) \ {i.source} |-> moved.accounts[a]]])
             ELSE Ok(moved)

\* Token program, Transfer.
TokenTransfer(st, i, signers) ==
    IF i.source \notin DOMAIN st.accounts \/ i.destination \notin DOMAIN st.accounts
    THEN Rejected(st, "InvalidAccountData")
    ELSE IF st.accounts[i.source].amount < i.amount
    THEN Rejected(st, "InsufficientFunds")
    ELSE IF st.accounts[i.source].mint # st.accounts[i.destination].mint
    THEN Rejected(st, "MintMismatch")
    ELSE IF st.accounts[i.source].owner # i.owner
    THEN Rejected(st, "OwnerMismatch")
    ELSE IF i.owner \notin signers
    THEN Rejected(st, "MissingRequiredSignature")
    ELSE IF i.source = i.destination
    THEN Ok(SelfTransfer(st, i))
    ELSE Ok([st EXCEPT !.accounts[i.source].amount = @ - i.amount,
                       !.accounts[i.destination].amount = @ + i.amount])

\* System + token program: create and initialize the asset (mint) account.
CreateMint(st, i, signers) ==
    IF i.mint \in DOMAIN st.mints
    THEN Rejected(st, "AccountAlreadyInUse")
    ELSE IF i.payer \notin signers
    THEN Rejected(st, "MissingRequiredSignature")
    ELSE Ok([st EXCEPT !.mints = @ @@ (i.mint :>
                [supply |-> 0, mintAuthority |-> i.authority,
                 payer |-> i.payer])])

\* The symbol is longer than the metadata record allows.
ExceedsMaximumLength(symbol) == Len(symbol) > 10

\* Metadata program: the metadata record bound to the asset address.  The
\* program refuses a symbol that does not fit the record; any name that fits,
\* the empty one included, is stored as it comes.
CreateMetadata(st, i, signers) ==
    IF i.mint \notin DOMAIN st.mints
    THEN Rejected(st, "InvalidMint")
    ELSE IF ExceedsMaximumLength(i.symbol)
    THEN Rejected(st, "SymbolTooLong")
    ELSE IF i.mint \in DOMAIN st.metadata
    THEN Rejected(st, "AccountAlreadyInUse")
    ELSE Ok([st EXCEPT !.metadata = @ @@ (i.mint :>
                [creator |-> i.creator, payer |-> i.payer,
                 name |-> i.name, symbol |-> i.symbol])])

\* Token program, MintTo.
MintTo(st, i, signers) ==
    IF i.mint \notin DOMAIN st.mints \/ i.destination \notin DOMAIN st.accounts
    THEN Rejected(st, "InvalidAccountData")
    ELSE IF st.mints[i.mint].mintAuthority # i.authority \/ i.authority \notin signers
    THEN Rejected(st, "OwnerMismatch")
    ELSE IF st.accounts[i.destination].mint # i.mint
    THEN Rejected(st, "MintMismatch")
    ELSE Ok([st EXCEPT !.mints[i.mint].supply = @ + i.amount,
                       !.accounts[i.destination].amount = @ + i.amount])

\* Metadata program: the "no further units" record; the mint authority is
\* taken away from every identity.
FinalizeSupply(st, i, signers) ==
    IF i.mint \notin DOMAIN st.mints
    THEN Rejected(st, "InvalidMint")
    ELSE IF st.mints[i.mint].mintAuthority # i.authority \/ i.authority \notin signers
    THEN Rejected(st, "OwnerMismatch")
    ELSE IF st.mints[i.mint].supply # 1
    THEN Rejected(st, "InvalidSupply")
    ELSE Ok([st EXCEPT !.mints[i.mint].mintAuthority = NoIdentity])

ApplyInstruction(st, i, signers, txid) ==
    CASE i.op = "createATA"      -> CreateAssociatedTokenAccount(st, i, signers, txid)
      [] i.op = "transfer"       -> TokenTransfer(st, i, signers)
      [] i.op = "createMint"     -> CreateMint(st, i, signers)
      [] i.op = "createMetadata" -> CreateMetadata(st, i, signers)
      [] i.op = "mintTo"         -> MintTo(st, i, signers)
      [] i.op = "finalizeSupply" -> FinalizeSupply(st, i, signers)

RECURSIVE ApplyAll(_, _, _, _)
ApplyAll(st, instrs, signers, txid) ==
    IF instrs = << >> THEN Ok(st)
    ELSE LET r == ApplyInstruction(st, Head(instrs), signers, txid)
         IN  IF r.ok THEN ApplyAll(r.st, Tail(instrs), signers, txid) ELSE r

KeepsPartial(st, partial) == partial

\* What a rejected transaction leaves behind: nothing of what the instructions
\* before the failing one did (partial).
RolledBack(st, partial) == st

\* A transaction is atomic: every instruction lands or none does.
ExecuteTransaction(st, tx, txid) ==
    LET r == ApplyAll(st, tx.instrs, tx.signers, txid)
    IN  IF r.ok THEN r ELSE Rejected(RolledBack(st, r.st), r.reason)

Balance(st, addr) ==
    IF addr \in DOMAIN st.accounts THEN st.accounts[addr].amount ELSE 0

----------------------------------------------------------------------------
(* The fee estimator *)

\* The fee breakdown the API documents, in lamports.
MintAccountRent == 1461600
MetadataAccountRent == 5616720
MasterEditionRent == 2853600
TransactionFee == 5000
DocumentedTotalMintingCost == 9936920
DocumentedPlatformFee == 993692
DocumentedTotalFee == 10930612

\* The platform fee as a percentage of its base: what the documented
\* platform_fee is of the documented total_minting_cost.
PlatformFeePercent == 10

MaxRentOffset == 3
MaxEstimates == 2

DocumentedRent ==
    [mint |-> MintAccountRent, metadata |-> MetadataAccountRent,
     master_edition |-> MasterEditionRent]

\* The rent-exemption minimums the ledger may report for the three accounts.
RentExemption ==
    [mint : {MintAccountRent + k : k \in 0..MaxRentOffset},
     metadata : {MetadataAccountRent + k : k \in 0..MaxRentOffset},
     master_edition : {MasterEditionRent + k : k \in 0..MaxRentOffset}]

Percentage(base) == (base * PlatformFeePercent) \div 100

estimateRoundingTheTotal(rent) ==
    LET total_minting_cost ==
            rent.mint + rent.metadata + rent.master_edition + TransactionFee
    IN  [mint_account_rent |-> rent.mint,
         metadata_account_rent |-> rent.metadata,
         master_edition_rent |-> rent.master_edition,
         transaction_fee |-> TransactionFee,
         total_minting_cost |-> total_minting_cost,
         platform_fee |-> Percentage(total_minting_cost),
         total_fee |-> (total_minting_cost * (100 + PlatformFeePercent) + 50) \div 100]

estimateSurchargeOnRent(rent) ==
    LET rents == rent.mint + rent.metadata + rent.master_edition
        total_minting_cost == rents + TransactionFee
    IN  [mint_account_rent |-> rent.mint,
         metadata_account_rent |-> rent.metadata,
         master_edition_rent |-> rent.master_edition,
         transaction_fee |-> TransactionFee,
         total_minting_cost |-> total_minting_cost,
         platform_fee |-> Percentage(rents),
         total_fee |-> total_minting_cost + Percentage(rents)]

\* estimate_issuance_cost: the rent of the three accounts an issuance
\* creates, the transaction fee, their sum, the platform fee on that sum
\* and the total.  Amounts are whole lamports; the percentage truncates.
estimate_issuance_cost(rent) ==
    LET total_minting_cost ==
            rent.mint + rent.metadata + rent.master_edition + TransactionFee
        platform_fee == Percentage(total_minting_cost)
    IN  [mint_account_rent |-> rent.mint,
         metadata_account_rent |-> rent.metadata,
         master_edition_rent |-> rent.master_edition,
         transaction_fee |-> TransactionFee,
         total_minting_cost |-> total_minting_cost,
         platform_fee |-> platform_fee,
         total_fee |-> total_minting_cost + platform_fee]

----------------------------------------------------------------------------
(* Transactions the callers build *)

NoTx == [status |-> "none"]
NoArgs == [op |-> "none"]
NoResult == [kind |-> "none"]

fromTokenAccountOfRecipient(a) == getAssociatedTokenAddress(a.nftAddress, a.recipient)

\* transferNFT: the source holding account, of the keypair the script loads.
fromTokenAccount(a) == getAssociatedTokenAddress(a.nftAddress, a.key)

toTokenAccountOfPayer(a) == getAssociatedTokenAddress(a.nftAddress, a.key)

\* transferNFT: the destination holding account, of the recipient.
toTokenAccount(a) == getAssociatedTokenAddress(a.nftAddress, a.recipient)

createATAInstruction(a) ==
    [op |-> "createATA", payer |-> a.key, ata |-> toTokenAccount(a),
     owner |-> a.recipient, mint |-> a.nftAddress]

transferInstructionOfNothing(a) ==
    [op |-> "transfer", source |-> fromTokenAccount(a),
     destination |-> toTokenAccount(a), owner |-> a.key, amount |-> 0]

transferInstruction(a) ==
    [op |-> "transfer", source |-> fromTokenAccount(a),
     destination |-> toTokenAccount(a), owner |-> a.key, amount |-> 1]

TransferInstructionsSplit(a, exists) ==
    IF ~exists THEN <<createATAInstruction(a)>> ELSE <<transferInstruction(a)>>

\* transferNFT: the creation of an absent destination account and the move
\* of the unit go into one transaction.
TransferInstructions(a, exists) ==
    (IF ~exists THEN <<createATAInstruction(a)>> ELSE << >>)
        \o <<transferInstruction(a)>>

TransferTransaction(a, exists) ==
    [instrs |-> TransferInstructions(a, exists), signers |-> {a.key},
     status |-> "pending", reason |-> "none",
     observed |-> [source |-> 0, destination |-> 0]]

holdingOwnerIsPayer(a) == IssuerIdentity

\* issue, step 5: the identity recorded as owner of the holding account is
\* the claimed owner; the backend only pays.
holdingOwner(a) == a.owner

\* issue, step 3: the owner's holding account.
ownerTokenAccount(a) == getAssociatedTokenAddress(a.asset, holdingOwner(a))

\* issue, step 4: one atomic instruction sequence.
IssueInstructions(a, exists) ==
    <<[op |-> "createMint", mint |-> a.asset, payer |-> IssuerIdentity,
       authority |-> IssuerIdentity],
      [op |-> "createMetadata", mint |-> a.asset, creator |-> a.owner,
       payer |-> IssuerIdentity, name |-> a.name, symbol |-> a.symbol]>>
    \o (IF ~exists
        THEN <<[op |-> "createATA", payer |-> IssuerIdentity,
                ata |-> ownerTokenAccount(a), owner |-> holdingOwner(a),
                mint |-> a.asset]>>
        ELSE << >>)
    \o <<[op |-> "mintTo", mint |-> a.asset, destination |-> ownerTokenAccount(a),
          authority |-> IssuerIdentity, amount |-> 1],
         [op |-> "finalizeSupply", mint |-> a.asset, authority |-> IssuerIdentity]>>

IssueTransaction(a, exists) ==
    [instrs |-> IssueInstructions(a, exists), signers |-> {IssuerIdentity},
     status |-> "pending", reason |-> "none",
     observed |-> [source |-> 0, destination |-> 0]]

----------------------------------------------------------------------------
(* State machine *)

\* The mint request of generateColosseumNFT.
ColosseumDescriptor == [name |-> "Ancient Colosseum", symbol |-> "COLO"]

\* Nothing has been called and the ledger holds none of the accounts.
InitCalls ==
    /\ ledger = [mints |-> << >>, metadata |-> << >>, accounts |-> << >>]
    /\ generated = {}
    /\ pc = [c \in Call |-> "idle"]
    /\ args = [c \in Call |-> NoArgs]
    /\ toAccountInfo = [c \in Call |-> FALSE]
    /\ txs = [c \in Call |-> NoTx]
    /\ result = [c \in Call |-> NoResult]
    /\ verified = [c \in Call |-> "none"]
    /\ sequenceNumber = [c \in Call |-> 0]

\* No estimate asked for, the rent-exemption minimums as documented.
NoEstimates == [rent |-> DocumentedRent, estimates |-> << >>]

\* The calls are made one by one, by no script.
NoResponse == [kind |-> "none", nft_address |-> 0, transaction_signature |-> 0]

NoRun == [script |-> "none", at |-> "none", response |-> NoResponse,
          exit |-> "running", currentOwner |-> NoIdentity]

Init ==
    /\ InitCalls
    /\ descriptor = ColosseumDescriptor
    /\ fees = NoEstimates
    /\ run = NoRun

\* The identity whose key signs the transaction of a call: the backend's for
\* an issuance, the loaded keypair's for a transfer.
Signer(a) == IF a.op = "issue" THEN IssuerIdentity ELSE a.key

\* The calls that have submitted a transaction signed by signer.
SubmittedBy(signer) ==
    {c \in Call : txs[c].status # "none" /\ Signer(args[c]) = signer}

NextSequenceNumberFromLedger(signer) ==
    1 + Cardinality({c \in SubmittedBy(signer) : txs[c].status # "pending"})

\* The signer context's counter, read and advanced together with the
\* submission: one more than the submissions the signer has made.
NextSequenceNumber(signer) == 1 + Cardinality(SubmittedBy(signer))

\* Calls are taken from the pool in order of their index.
Free(c) == pc[c] = "idle" /\ \A d \in Call : d < c => pc[d] # "idle"

IssueBeginSingleUse(c, owner, assertion) ==
    /\ Free(c)
    /\ args' = [args EXCEPT ![c] = [op |-> "issue", owner |-> owner,
                                    assertion |-> assertion, asset |-> 0,
                                    name |-> descriptor.name,
                                    symbol |-> descriptor.symbol]]
    /\ IF /\ verify(assertion, owner)
          /\ \A d \in Call : (d < c /\ args[d].op = "issue") =>
                                    args[d].assertion # assertion
       THEN /\ pc' = [pc EXCEPT ![c] = "i_build"]
            /\ UNCHANGED result
       ELSE /\ pc' = [pc EXCEPT ![c] = "done"]
            /\ result' = [result EXCEPT ![c] = [kind |-> "Unauthorized"]]
    /\ UNCHANGED <<ledger, generated, toAccountInfo, txs, verified, sequenceNumber, descriptor,
                   fees, run>>

\* issue, step 1: verify the assertion against the claimed owner.
IssueBegin(c, owner, assertion) ==
    /\ Free(c)
    /\ args' = [args EXCEPT ![c] = [op |-> "issue", owner |-> owner,
                                    assertion |-> assertion, asset |-> 0,
                                    name |-> descriptor.name,
                                    symbol |-> descriptor.symbol]]
    /\ IF verify(assertion, owner)
       THEN /\ pc' = [pc EXCEPT ![c] = "i_build"]
            /\ UNCHANGED result
       ELSE /\ pc' = [pc EXCEPT ![c] = "done"]
            /\ result' = [result EXCEPT ![c] = [kind |-> "Unauthorized"]]
    /\ UNCHANGED <<ledger, generated, toAccountInfo, txs, verified, sequenceNumber, descriptor,
                   fees, run>>

DerivedAddress == CHOOSE a \in Asset : \A b \in Asset : a <= b

\* A new keypair's address: one that no earlier call generated.
FreshAddress == CHOOSE a \in Asset \ generated : \A b \in Asset \ generated : a <= b

\* issue, steps 2 to 6: fresh asset address, resolve and check the owner's
\* holding account, build the transaction, submit it.
IssueSubmit(c) ==
    /\ pc[c] = "i_build"
    /\ generated # Asset
    /\ LET asset == FreshAddress
            a == [args[c] EXCEPT !.asset = asset]
            exists == ownerTokenAccount(a) \in DOMAIN ledger.accounts
        IN  /\ generated' = generated \cup {asset}
            /\ args' = [args EXCEPT ![c] = a]
            /\ txs' = [txs EXCEPT ![c] = IssueTransaction(a, exists)]
    /\ sequenceNumber' = [sequenceNumber EXCEPT ![c] = NextSequenceNumber(Signer(args[c]))]
    /\ pc' = [pc EXCEPT ![c] = "i_await"]
    /\ UNCHANGED <<ledger, toAccountInfo, result, verified, descriptor, fees, run>>

\* issue, steps 6 and 7: the watcher's outcome decides what issue returns.
IssueConfirm(c) ==
    /\ pc[c] = "i_await"
    /\ txs[c].status = "finalized"
    /\ result' = [result EXCEPT ![c] =
                    [kind |-> "Finalized", asset |-> args[c].asset,
                     balance |-> txs[c].observed.destination]]
    /\ pc' = [pc EXCEPT ![c] = "done"]
    /\ UNCHANGED <<ledger, generated, args, toAccountInfo, txs, verified,
                   sequenceNumber, descriptor,
                   fees, run>>

IssueFail(c) ==
    /\ pc[c] = "i_await"
    /\ txs[c].status = "failed"
    /\ result' = [result EXCEPT ![c] =
                    [kind |-> "SubmissionFailed", reason |-> txs[c].reason]]
    /\ pc' = [pc EXCEPT ![c] = "done"]
    /\ UNCHANGED <<ledger, generated, args, toAccountInfo, txs, verified,
                   sequenceNumber, descriptor,
                   fees, run>>

IssueTimeout(c) ==
    /\ pc[c] = "i_await"
    /\ txs[c].status = "pending"
    /\ result' = [result EXCEPT ![c] = [kind |-> "Pending", asset |-> args[c].asset]]
    /\ pc' = [pc EXCEPT ![c] = "done"]
    /\ UNCHANGED <<ledger, generated, args, toAccountInfo, txs, verified,
                   sequenceNumber, descriptor,
                   fees, run>>

\* The asset addresses a caller can pass to transferNFT: those an issuance
\* returned, and those that are on the ledger for everyone to see.
KnownAssets ==
    {result[c].asset : c \in {d \in Call : result[d].kind \in {"Finalized", "Pending"}}}
        \cup DOMAIN ledger.mints

\* transferNFT up to the read of the destination account.
TransferBegin(c, nftAddress, key, recipient) ==
    /\ Free(c)
    /\ LET a == [op |-> "transfer", nftAddress |-> nftAddress, key |-> key,
                 recipient |-> recipient]
       IN  /\ args' = [args EXCEPT ![c] = a]
           /\ toAccountInfo' = [toAccountInfo EXCEPT ![c] =
                                    toTokenAccount(a) \in DOMAIN ledger.accounts]
    /\ pc' = [pc EXCEPT ![c] = "t_build"]
    /\ UNCHANGED <<ledger, generated, txs, result, verified, sequenceNumber, descriptor,
                   fees, run>>

\* transferNFT: build the transaction and send it.
TransferSend(c) ==
    /\ pc[c] = "t_build"
    /\ txs' = [txs EXCEPT ![c] = TransferTransaction(args[c], toAccountInfo[c])]
    /\ sequenceNumber' = [sequenceNumber EXCEPT ![c] = NextSequenceNumber(Signer(args[c]))]
    /\ pc' = [pc EXCEPT ![c] = "t_await"]
    /\ UNCHANGED <<ledger, generated, args, toAccountInfo, result, verified, descriptor, fees, run>>

TransferConfirmEarly(c) ==
    /\ pc[c] = "t_await"
    /\ txs[c].status # "failed"
    /\ result' = [result EXCEPT ![c] = [kind |-> "returned", signature |-> c]]
    /\ pc' = [pc EXCEPT ![c] = "done"]
    /\ UNCHANGED <<ledger, generated, args, toAccountInfo, txs, verified,
                   sequenceNumber, descriptor,
                   fees, run>>

\* sendAndConfirmTransaction returns the signature.
TransferConfirm(c) ==
    /\ pc[c] = "t_await"
    /\ txs[c].status = "finalized"
    /\ result' = [result EXCEPT ![c] = [kind |-> "returned", signature |-> c]]
    /\ pc' = [pc EXCEPT ![c] = "done"]
    /\ UNCHANGED <<ledger, generated, args, toAccountInfo, txs, verified,
                   sequenceNumber, descriptor,
                   fees, run>>

TransferFailSwallowed(c) ==
    /\ pc[c] = "t_await"
    /\ txs[c].status = "failed"
    /\ result' = [result EXCEPT ![c] = [kind |-> "returned", signature |-> c]]
    /\ pc' = [pc EXCEPT ![c] = "done"]
    /\ UNCHANGED <<ledger, generated, args, toAccountInfo, txs, verified,
                   sequenceNumber, descriptor,
                   fees, run>>

TransferFailRetries(c) ==
    /\ pc[c] = "t_await"
    /\ txs[c].status = "failed"
    /\ pc' = [pc EXCEPT ![c] = "t_build"]
    /\ UNCHANGED <<ledger, generated, args, toAccountInfo, txs, result, verified,
                   sequenceNumber, descriptor,
                   fees, run>>

TransferFailGeneric(c) ==
    /\ pc[c] = "t_await"
    /\ txs[c].status = "failed"
    /\ result' = [result EXCEPT ![c] =
                    [kind |-> "thrown",
                     message |-> <<"NFT transfer failed: ", "Transaction failed">>]]
    /\ pc' = [pc EXCEPT ![c] = "done"]
    /\ UNCHANGED <<ledger, generated, args, toAccountInfo, txs, verified,
                   sequenceNumber, descriptor,
                   fees, run>>

\* sendAndConfirmTransaction throws: the ledger rejected the transaction.
TransferFail(c) ==
    /\ pc[c] = "t_await"
    /\ txs[c].status = "failed"
    /\ result' = [result EXCEPT ![c] =
                    [kind |-> "thrown",
                     message |-> <<"NFT transfer failed: ", txs[c].reason>>]]
    /\ pc' = [pc EXCEPT ![c] = "done"]
    /\ UNCHANGED <<ledger, generated, args, toAccountInfo, txs, verified,
                   sequenceNumber, descriptor,
                   fees, run>>

TransferExpireSwallowed(c) ==
    /\ pc[c] = "t_await"
    /\ txs[c].status = "pending"
    /\ result' = [result EXCEPT ![c] = [kind |-> "returned", signature |-> c]]
    /\ pc' = [pc EXCEPT ![c] = "done"]
    /\ UNCHANGED <<ledger, generated, args, toAccountInfo, txs, verified,
                   sequenceNumber, descriptor,
                   fees, run>>

TransferExpireNever(c) == FALSE /\ UNCHANGED vars

TransferExpireBeforeSend(c) ==
    /\ pc[c] \in {"t_build", "t_await"}
    /\ txs[c].status \in {"none", "pending"}
    /\ result' = [result EXCEPT ![c] =
                    [kind |-> "thrown",
                     message |-> <<"NFT transfer failed: ", "not confirmed">>]]
    /\ pc' = [pc EXCEPT ![c] = "done"]
    /\ UNCHANGED <<ledger, generated, args, toAccountInfo, txs, verified,
                   sequenceNumber, descriptor,
                   fees, run>>

\* sendAndConfirmTransaction throws: not confirmed before it gave up.
TransferExpire(c) ==
    /\ pc[c] = "t_await"
    /\ txs[c].status = "pending"
    /\ result' = [result EXCEPT ![c] =
                    [kind |-> "thrown",
                     message |-> <<"NFT transfer failed: ", "not confirmed">>]]
    /\ pc' = [pc EXCEPT ![c] = "done"]
    /\ UNCHANGED <<ledger, generated, args, toAccountInfo, txs, verified,
                   sequenceNumber, descriptor,
                   fees, run>>

\* verifyNFTTransfer, called once transferNFT has returned: reads the balance
\* of the recipient's holding account and logs success when it is 1, a
\* warning when it is not or when the read throws (the account is absent, or
\* the request to the RPC node fails).
\* Either way generateColosseumNFT goes on to report completion.
VerifyTransfer(c) ==
    /\ pc[c] = "done"
    /\ args[c].op = "transfer"
    /\ result[c].kind = "returned"
    /\ verified[c] = "none"
    /\ \E readThrows \in BOOLEAN :
        LET associatedTokenAccount ==
                getAssociatedTokenAddress(args[c].nftAddress, args[c].recipient)
        IN  verified' = [verified EXCEPT ![c] =
                IF /\ ~readThrows
                   /\ associatedTokenAccount \in DOMAIN ledger.accounts
                   /\ ledger.accounts[associatedTokenAccount].amount = 1
                THEN "successful" ELSE "warning"]
    /\ UNCHANGED <<ledger, generated, pc, args, toAccountInfo, txs, result, sequenceNumber, descriptor,
                   fees, run>>

\* The balances of the holding accounts a call is about, read on state st:
\* holding-account(asset, owner) of an issuance; holding-account(asset,
\* source) and holding-account(asset, destination) of a transfer.
ObservedBalances(st, a) ==
    IF a.op = "issue"
    THEN [source |-> 0,
          destination |-> Balance(st, getAssociatedTokenAddress(a.asset, a.owner))]
    ELSE [source |-> Balance(st, getAssociatedTokenAddress(a.nftAddress, a.key)),
          destination |-> Balance(st, getAssociatedTokenAddress(a.nftAddress, a.recipient))]

\* The ledger executes a submitted transaction.
LedgerProcess(c) ==
    /\ txs[c].status = "pending"
    /\ LET r == ExecuteTransaction(ledger, txs[c], c)
       IN  /\ ledger' = r.st
           /\ txs' = [txs EXCEPT ![c] =
                [@ EXCEPT !.status = IF r.ok THEN "finalized" ELSE "failed",
                          !.reason = r.reason,
                          !.observed = ObservedBalances(r.st, args[c])]]
    /\ UNCHANGED <<generated, pc, args, toAccountInfo, result, verified, sequenceNumber, descriptor,
                   fees, run>>

\* The ledger rejects a submitted transaction for a reason of its own: the
\* payer's balance does not cover the fee (k = 0) or the rent of the account
\* that instruction k + 1 creates.  The k instructions before it had landed.
LedgerReject(c) ==
    /\ txs[c].status = "pending"
    /\ \E k \in 0..(Len(txs[c].instrs) - 1) :
        LET r == ApplyAll(ledger, SubSeq(txs[c].instrs, 1, k), txs[c].signers, c)
        IN  /\ r.ok
            /\ ledger' = RolledBack(ledger, r.st)
    /\ txs' = [txs EXCEPT ![c] =
                [@ EXCEPT !.status = "failed",
                          !.reason = "Attempt to debit an account but found no record of a prior credit"]]
    /\ UNCHANGED <<generated, pc, args, toAccountInfo, result, verified, sequenceNumber, descriptor,
                   fees, run>>

Next ==
    \/ \E c \in Call, owner \in Identity, assertion \in Assertion :
            IssueBegin(c, owner, assertion)
    \/ \E c \in Call : IssueSubmit(c)
    \/ \E c \in Call : IssueConfirm(c)
    \/ \E c \in Call : IssueFail(c)
    \/ \E c \in Call : IssueTimeout(c)
    \/ \E c \in Call, nftAddress \in KnownAssets, key \in Identity, recipient \in Identity :
            TransferBegin(c, nftAddress, key, recipient)
    \/ \E c \in Call : TransferSend(c)
    \/ \E c \in Call : TransferConfirm(c)
    \/ \E c \in Call : TransferFail(c)
    \/ \E c \in Call : TransferExpire(c)
    \/ \E c \in Call : VerifyTransfer(c)
    \/ \E c \in Call : LedgerProcess(c)
    \/ \E c \in Call : LedgerReject(c)

Spec == Init /\ [][Next]_vars

\* The mint requests a caller can send: the name may be empty and the symbol
\* of any length, nothing on the way to the ledger looks at them.
Descriptor ==
    [name : {"", "Ancient Colosseum"},
     symbol : {"COLO", "COLOSSEUM-OF-ROME-LIMITED-EDITION"}]

InitAnyDescriptor ==
    /\ InitCalls
    /\ descriptor \in Descriptor
    /\ fees = NoEstimates
    /\ run = NoRun

AnyDescriptorSpec == InitAnyDescriptor /\ [][Next]_vars

\* A request for the fee estimate (GET fees/estimate, or the estimate a mint
\* response carries): the breakdown computed from the current minimums.
EstimateIssuanceCost ==
    /\ Len(fees.estimates) < MaxEstimates
    /\ fees' = [fees EXCEPT !.estimates = Append(@, estimate_issuance_cost(fees.rent))]
    /\ UNCHANGED <<ledger, generated, pc, args, toAccountInfo, txs, result, verified,
                   sequenceNumber, descriptor, run>>

InitFees ==
    /\ InitCalls
    /\ descriptor = ColosseumDescriptor
    /\ fees \in [rent : RentExemption, estimates : {<< >>}]
    /\ run = NoRun

FeeNext == EstimateIssuanceCost

\* The estimator alone, for every set of rent-exemption minimums.
FeeSpec == InitFees /\ [][FeeNext]_vars

----------------------------------------------------------------------------
(* The scripts: generateColosseumNFT and main *)

\* What axios.post of the mint request can give back: an error status, or a
\* body in which nft_address and transaction_signature are where the script
\* reads them or are not (0: the field is undefined).  Once the backend's
\* issue has ended: an error status when the issue did not go through; else
\* a body with the asset's address and the call's signature, each of them
\* there or not.
MintResponse ==
    [kind : {"ok", "error"}, nft_address : Asset \cup {0},
     transaction_signature : Call \cup {0}]

MintResponses(c) ==
    IF result[c].kind \in {"Finalized", "Pending"}
    THEN [kind : {"ok"}, nft_address : {result[c].asset, 0},
          transaction_signature : {c, 0}]
    ELSE {[kind |-> "error", nft_address |-> 0, transaction_signature |-> 0]}

ResponseAcceptedWithAddress(script, response) ==
    /\ response.kind = "ok"
    /\ response.nft_address # 0

\* Does the script go on to the transfer?  generateColosseumNFT throws
\* unless both fields are there; main checks nothing, and new PublicKey
\* throws on an undefined nft_address.
ResponseAccepted(script, response) ==
    /\ response.kind = "ok"
    /\ response.nft_address # 0
    /\ script = "colosseum" => response.transaction_signature # 0

\* The catch block of the script: generateColosseumNFT exits with status 1,
\* main logs the error and ends.
ErrorPath(r) ==
    [r EXCEPT !.at = "error",
              !.exit = IF r.script = "colosseum" THEN "status 1" ELSE "normal"]

\* Step 1: the mint request, handled by the backend's issue.
ScriptIssueBegin(c, owner, assertion) ==
    /\ run.at = "mint"
    /\ \A d \in Call : pc[d] = "idle"
    /\ IssueBegin(c, owner, assertion)

\* The mint request has returned or thrown.
ScriptMintResponded(c, response) ==
    /\ run.at = "mint"
    /\ args[c].op = "issue"
    /\ pc[c] = "done"
    /\ response \in MintResponses(c)
    /\ run' = IF ResponseAccepted(run.script, response)
              THEN [run EXCEPT !.response = response, !.at = "transfer"]
              ELSE ErrorPath([run EXCEPT !.response = response])
    /\ UNCHANGED <<ledger, generated, pc, args, toAccountInfo, txs, result, verified,
                   sequenceNumber, descriptor, fees>>

\* Step 2: the transfer of the asset the response names.
ScriptTransferBegin(c, key, recipient) ==
    /\ run.at = "transfer"
    /\ \A d \in Call : args[d].op # "transfer"
    /\ TransferBegin(c, run.response.nft_address, key, recipient)

\* The transfer has returned its signature or thrown.
ScriptTransferEnded(c) ==
    /\ run.at = "transfer"
    /\ args[c].op = "transfer"
    /\ pc[c] = "done"
    /\ run' = IF result[c].kind # "returned" THEN ErrorPath(run)
              ELSE IF run.script = "colosseum" THEN [run EXCEPT !.at = "verify"]
              ELSE [run EXCEPT !.at = "complete", !.exit = "normal"]
    /\ UNCHANGED <<ledger, generated, pc, args, toAccountInfo, txs, result, verified,
                   sequenceNumber, descriptor, fees>>

\* Step 3 of generateColosseumNFT: verifyNFTTransfer.
ScriptVerify(c) ==
    /\ run.at = "verify"
    /\ VerifyTransfer(c)

ScriptCompleteStrict(c) ==
    /\ run.at = "verify"
    /\ args[c].op = "transfer"
    /\ verified[c] # "none"
    /\ run' = IF verified[c] = "warning" THEN ErrorPath(run)
              ELSE [run EXCEPT !.at = "complete", !.exit = "normal",
                               !.currentOwner = args[c].recipient]
    /\ UNCHANGED <<ledger, generated, pc, args, toAccountInfo, txs, result, verified,
                   sequenceNumber, descriptor, fees>>

\* verifyNFTTransfer has returned, whatever it logged: the summary is
\* printed, with the recipient as current owner, and the script ends.
ScriptComplete(c) ==
    /\ run.at = "verify"
    /\ args[c].op = "transfer"
    /\ verified[c] # "none"
    /\ run' = [run EXCEPT !.at = "complete", !.exit = "normal",
                          !.currentOwner = args[c].recipient]
    /\ UNCHANGED <<ledger, generated, pc, args, toAccountInfo, txs, result, verified,
                   sequenceNumber, descriptor, fees>>

InitScript ==
    /\ InitCalls
    /\ descriptor = ColosseumDescriptor
    /\ fees = NoEstimates
    /\ run \in [script : {"colosseum", "main"}, at : {"mint"}, response : {NoResponse},
                 exit : {"running"}, currentOwner : {NoIdentity}]

ScriptNext ==
    \/ \E c \in Call, owner \in Identity, assertion \in Assertion :
            ScriptIssueBegin(c, owner, assertion)
    \/ \E c \in Call : IssueSubmit(c)
    \/ \E c \in Call : IssueConfirm(c)
    \/ \E c \in Call : IssueFail(c)
    \/ \E c \in Call : IssueTimeout(c)
    \/ \E c \in Call, response \in MintResponse : ScriptMintResponded(c, response)
    \/ \E c \in Call, key \in Identity, recipient \in Identity :
            ScriptTransferBegin(c, key, recipient)
    \/ \E c \in Call : TransferSend(c)
    \/ \E c \in Call : TransferConfirm(c)
    \/ \E c \in Call : TransferFail(c)
    \/ \E c \in Call : TransferExpire(c)
    \/ \E c \in Call : ScriptTransferEnded(c)
    \/ \E c \in Call : ScriptVerify(c)
    \/ \E c \in Call : ScriptComplete(c)
    \/ \E c \in Call : LedgerProcess(c)
    \/ \E c \in Call : LedgerReject(c)

\* One run of one of the two scripts.
ScriptSpec == InitScript /\ [][ScriptNext]_vars

\* The wait of a call that has submitted its transaction.
TransferWait(c) == TransferConfirm(c) \/ TransferFail(c) \/ TransferExpire(c)
IssueWait(c) == IssueConfirm(c) \/ IssueFail(c) \/ IssueTimeout(c)

\* The runtime keeps running a wait that can make a step: the promise of
\* sendAndConfirmTransaction settles on the confirmation, on the rejection or
\* on the expiry of the wait.  Nothing obliges the ledger to execute anything.
FairSpec ==
    /\ Spec
    /\ \A c \in Call : WF_vars(TransferWait(c)) /\ WF_vars(IssueWait(c))

----------------------------------------------------------------------------
(* Properties *)

IsIssue(c) == args[c].op = "issue"
IsTransfer(c) == args[c].op = "transfer"
Submitted(c) == txs[c].status # "none"
Finalized(c) == txs[c].status = "finalized"
Failed(c) == txs[c].status = "failed"

\* The instructions of kind op in the transaction of call c.
InstructionsOf(c, op) ==
    {txs[c].instrs[k] : k \in {j \in DOMAIN txs[c].instrs : txs[c].instrs[j].op = op}}

\* The identity a call wants to own the holding account it funds.
IntendedOwner(c) == IF IsIssue(c) THEN args[c].owner ELSE args[c].recipient

\* The identity that pays for the accounts a call creates.
Payer(c) == IF IsIssue(c) THEN IssuerIdentity ELSE args[c].key

\* C1: payer/owner separation.  Every holding account that an issuance or a
\* transfer created has the owner identity (of the issuance) or the destination
\* identity (of the transfer) as its recorded owner, and so has the account
\* that receives the unit; when the paying identity is another one, the payer
\* is not the recorded owner.
PayerOwnerSeparation ==
    /\ \A addr \in DOMAIN ledger.accounts :
        LET c == ledger.accounts[addr].createdBy
        IN  /\ ledger.accounts[addr].owner = IntendedOwner(c)
            /\ Payer(c) # IntendedOwner(c) => ledger.accounts[addr].owner # Payer(c)
    /\ \A c \in Call : Finalized(c) =>
        \A i \in InstructionsOf(c, "mintTo") \cup InstructionsOf(c, "transfer") :
            /\ ledger.accounts[i.destination].owner = IntendedOwner(c)
            /\ Payer(c) # IntendedOwner(c) =>
                    ledger.accounts[i.destination].owner # Payer(c)

\* C1 witness: an issuance for an owner other than the issuer has landed, and
\* a transfer paid by an identity other than the recipient has created the
\* recipient's holding account and landed.
PayerOwnerSeparationWitness ==
    /\ \E c \in Call : IsIssue(c) /\ Finalized(c) /\ args[c].owner # IssuerIdentity
    /\ \E c \in Call :
        /\ IsTransfer(c) /\ Finalized(c) /\ args[c].key # args[c].recipient
        /\ \E addr \in DOMAIN ledger.accounts : ledger.accounts[addr].createdBy = c

Holdings(asset) ==
    {addr \in DOMAIN ledger.accounts : ledger.accounts[addr].mint = asset}

RECURSIVE SumOfBalances(_)
SumOfBalances(addrs) ==
    IF addrs = {} THEN 0
    ELSE LET addr == CHOOSE x \in addrs : TRUE
         IN  ledger.accounts[addr].amount + SumOfBalances(addrs \ {addr})

TotalBalance(asset) == SumOfBalances(Holdings(asset))

\* C2: supply invariant.  The balances of an asset's holding accounts sum to
\* at most 1, to exactly 1 once the issuance transaction is finalized, and from
\* then on no identity holds the authority to mint a further unit: the ledger
\* rejects every MintTo for the asset.
SupplyInvariant ==
    \A asset \in Asset :
        /\ TotalBalance(asset) <= 1
        /\ (\E c \in Call : IsIssue(c) /\ Finalized(c) /\ args[c].asset = asset) =>
            /\ TotalBalance(asset) = 1
            /\ asset \in DOMAIN ledger.mints
            /\ ledger.mints[asset].supply = 1
            /\ ledger.mints[asset].mintAuthority = NoIdentity
            /\ \A w \in Identity, addr \in Holdings(asset) :
                    ~MintTo(ledger, [op |-> "mintTo", mint |-> asset,
                                     destination |-> addr, authority |-> w,
                                     amount |-> 1], {w}).ok

\* C2 witness: the unit of an issued asset was moved from one holding account
\* to another by a finalized transfer.
SupplyInvariantWitness ==
    \E asset \in Asset :
        /\ TotalBalance(asset) = 1
        /\ Cardinality(Holdings(asset)) = 2
        /\ \E c \in Call : IsTransfer(c) /\ Finalized(c) /\ args[c].nftAddress = asset
                            /\ args[c].key # args[c].recipient

\* transferNFT returned the signature: the transfer's outcome is Finalized.
Returned(c) == IsTransfer(c) /\ result[c].kind = "returned"

\* C3, as claimed: whenever a transfer yields a Finalized outcome, the source
\* holding account's balance is 0, the destination's is 1, and the two sum
\* to 1.
TransferPostconditionAnyDestination ==
    \A c \in Call : Returned(c) =>
        /\ txs[c].observed.source = 0
        /\ txs[c].observed.destination = 1
        /\ txs[c].observed.source + txs[c].observed.destination = 1

\* C3, amended: whenever a transfer to a destination identity other than the
\* source owner yields a Finalized outcome, the source holding account's
\* balance is 0, the destination's is 1, and the two sum to 1; when the
\* destination is the source owner the one holding account keeps balance 1.
TransferPostcondition ==
    \A c \in Call : Returned(c) =>
        IF args[c].key # args[c].recipient
        THEN /\ txs[c].observed.source = 0
             /\ txs[c].observed.destination = 1
             /\ txs[c].observed.source + txs[c].observed.destination = 1
        ELSE txs[c].observed.destination = 1

\* C3 witness: a transfer to another identity has returned its signature.
TransferPostconditionWitness ==
    \E c \in Call : Returned(c) /\ args[c].key # args[c].recipient

\* C4: transfer atomicity.  A holding account that a transfer created exists
\* only if that transfer's transaction is finalized and moved the unit into
\* it; a failed transfer leaves no account behind.
TransferAtomicity ==
    /\ \A addr \in DOMAIN ledger.accounts :
        LET c == ledger.accounts[addr].createdBy
        IN  IsTransfer(c) =>
                /\ Finalized(c)
                /\ \E i \in InstructionsOf(c, "transfer") :
                        i.destination = addr /\ i.amount = 1
    /\ \A c \in Call : IsTransfer(c) /\ Failed(c) =>
        \A addr \in DOMAIN ledger.accounts : ledger.accounts[addr].createdBy # c

\* C4 witness: a transfer that carried the creation of its destination account
\* was rejected at the instruction that moves the unit, after the creation had
\* landed; the destination account does not exist.
TransferAtomicityWitness ==
    \E c \in Call :
        /\ IsTransfer(c) /\ Failed(c) /\ ~toAccountInfo[c]
        /\ txs[c].reason \in {"InvalidAccountData", "InsufficientFunds"}
        /\ getAssociatedTokenAddress(args[c].nftAddress, args[c].recipient)
                \notin DOMAIN ledger.accounts

\* C5, as claimed: no transaction is rejected because the holding account it
\* creates exists by the time the transaction lands.
CreateIfAbsentIsIdempotent ==
    \A c \in Call :
        Failed(c) => txs[c].reason # "IllegalOwner: account already exists"

\* C5 failing input: a transfer read its destination account as absent and
\* was rejected at the creation of that account.
CreateIfAbsentRace ==
    \E c \in Call :
        /\ IsTransfer(c) /\ ~toAccountInfo[c] /\ Failed(c)
        /\ txs[c].reason = "IllegalOwner: account already exists"

IssuancePostcondition ==
    \A c \in Call :
        IsIssue(c) /\ result[c].kind = "Finalized" =>
            /\ result[c].asset = args[c].asset
            /\ result[c].balance = 1
            /\ txs[c].observed.destination = 1

\* C7 witness: an issuance for an owner other than the issuer returned
\* Finalized.
IssuancePostconditionWitness ==
    \E c \in Call :
        IsIssue(c) /\ result[c].kind = "Finalized" /\ args[c].owner # IssuerIdentity

\* The ledger holds none of the accounts of the issuance of call c.
NothingIssued(c) ==
    /\ args[c].asset \notin DOMAIN ledger.mints
    /\ args[c].asset \notin DOMAIN ledger.metadata
    /\ Holdings(args[c].asset) = {}

TransferAuthorization ==
    \A c \in Call : IsTransfer(c) /\ Submitted(c) =>
        \A i \in InstructionsOf(c, "transfer") :
            /\ i.source = getAssociatedTokenAddress(args[c].nftAddress, i.owner)
            /\ i.owner \in txs[c].signers
            /\ Finalized(c) => ledger.accounts[i.source].owner = i.owner

\* C9 witness: an identity that does not hold the unit paid for a transfer,
\* the transfer was rejected, and the unit is still with its owner.
TransferAuthorizationWitness ==
    \E c \in Call :
        /\ IsTransfer(c) /\ Failed(c) /\ toAccountInfo[c]
        /\ txs[c].reason \in {"InvalidAccountData", "InsufficientFunds"}
        /\ Balance(ledger, getAssociatedTokenAddress(args[c].nftAddress, args[c].key)) = 0
        /\ \E w \in Identity \ {args[c].key} :
                Balance(ledger, getAssociatedTokenAddress(args[c].nftAddress, w)) = 1

SourceBalance(c) ==
    Balance(ledger, getAssociatedTokenAddress(args[c].nftAddress, args[c].key))

\* C11, as claimed: a transfer whose source holding account does not hold
\* exactly one unit when the call is about to submit returns SourceEmpty,
\* submits no transaction and moves no balance.
SourceEmptyCheckedAtSubmission ==
    [][\A c \in Call :
        (pc[c] = "t_build" /\ SourceBalance(c) # 1 /\ pc'[c] # "t_build") =>
            /\ result'[c].kind = "SourceEmpty"
            /\ txs'[c] = txs[c]
            /\ ledger' = ledger]_vars

\* C11, amended: there is no check at submission time.  A transfer whose
\* source holding account does not exist or holds less than one unit when the
\* ledger executes its transaction is rejected by the ledger, no account is
\* created and no balance moves, and the call, once it has ended, has thrown
\* "NFT transfer failed: ..." (the SubmissionFailed outcome).
SourceEmptyRejectedByLedger ==
    [][ /\ \A c \in Call :
            ( /\ IsTransfer(c) /\ txs[c].status = "pending"
              /\ txs'[c].status # "pending" /\ SourceBalance(c) < 1 ) =>
                ( /\ txs'[c].status = "failed"
                  /\ ledger' = ledger
                  /\ pc'[c] = "done" => result'[c].kind = "thrown" )
        /\ \A c \in Call :
            (IsTransfer(c) /\ Failed(c) /\ pc[c] = "t_await" /\ pc'[c] = "done") =>
                ( /\ result'[c].kind = "thrown"
                  /\ result'[c].message[1] = "NFT transfer failed: " ) ]_vars

\* C11 witness: a transfer out of a holding account that does not hold the
\* unit was submitted, rejected by the ledger for that reason, and has thrown.
SourceEmptyWitness ==
    \E c \in Call :
        /\ IsTransfer(c) /\ Failed(c) /\ SourceBalance(c) = 0
        /\ txs[c].reason \in {"InvalidAccountData", "InsufficientFunds"}
        /\ result[c].kind = "thrown"
        /\ result[c].message = <<"NFT transfer failed: ", txs[c].reason>>

\* What the confirmation wait of a call reported, read off what the call
\* returned or threw: the signature or the Finalized record (Finalized), the
\* ledger's rejection (Failed), or that it gave up waiting (Pending).
Outcome(r) ==
    CASE r.kind \in {"Finalized", "returned"} -> "Finalized"
      [] r.kind = "SubmissionFailed" -> "Failed"
      [] r.kind = "Pending" -> "Pending"
      [] r.kind = "thrown" ->
            IF r.message[2] = "not confirmed" THEN "Pending" ELSE "Failed"
      [] OTHER -> "none"

OutcomeReason(r) == IF r.kind = "thrown" THEN r.message[2] ELSE r.reason

\* The confirmation wait of call c ends in this step.
WaitEnds(c) == pc[c] \in {"i_await", "t_await"} /\ pc'[c] = "done"

FinalizedIsCorroborated ==
    \A c \in Call : Outcome(result[c]) = "Finalized" =>
        IF IsIssue(c)
        THEN "balance" \in DOMAIN result[c]
        ELSE verified[c] = "successful"

\* C13 failing input: transferNFT has returned the signature of a finalized
\* transaction and no balance has been read.
FinalizedOnStatusAlone ==
    \E c \in Call : Returned(c) /\ Finalized(c) /\ verified[c] = "none"

\* C14, as claimed: a timeout is indeterminate, not a failure.  A wait that
\* ends while the transaction is still pending reports Pending, not Failed and
\* not an error; giving up cancels nothing: the transaction stays submitted
\* and pending and the ledger is untouched; and the ledger executes a
\* transaction whose caller gave up as it would any other, so that it may
\* still become finalized afterwards.
TimeoutIsIndeterminate ==
    [][\A c \in Call :
        /\ (WaitEnds(c) /\ txs[c].status = "pending") =>
                ( /\ Outcome(result'[c]) = "Pending"
                  /\ result'[c].kind # "thrown"
                  /\ txs'[c] = txs[c]
                  /\ ledger' = ledger )
        /\ (pc[c] = "done" /\ txs[c].status = "pending" /\ txs'[c].status = "finalized") =>
                ( /\ ExecuteTransaction(ledger, txs[c], c).ok
                  /\ ledger' = ExecuteTransaction(ledger, txs[c], c).st
                  /\ result'[c] = result[c] )]_vars

\* C14 failing input: transferNFT gave up waiting and threw, and its
\* transaction became finalized on the ledger afterwards.
TimeoutReportedAsError ==
    \E c \in Call :
        /\ IsTransfer(c) /\ pc[c] = "done"
        /\ result[c].kind = "thrown"
        /\ Outcome(result[c]) = "Pending"
        /\ Finalized(c)
        /\ txs[c].observed.destination = 1

\* C15: a transfer whose wait ends on a transaction the ledger rejected, or
\* on one that is still pending when the wait gives up, fails with the same
\* error, "NFT transfer failed: " followed by the reason: the ledger's own
\* for a rejection, the expiry of the wait for a timeout.
TransferSubmissionFailed ==
    [][\A c \in Call : (IsTransfer(c) /\ WaitEnds(c)) =>
        /\ txs[c].status = "failed" =>
                /\ result'[c].kind = "thrown"
                /\ result'[c].message = <<"NFT transfer failed: ", txs[c].reason>>
        /\ txs[c].status = "pending" =>
                /\ result'[c].kind = "thrown"
                /\ result'[c].message = <<"NFT transfer failed: ", "not confirmed">>]_vars

\* C15 witness: a transfer gave up on a transaction that is still pending and
\* threw.
TransferSubmissionFailedWitness ==
    \E c \in Call :
        /\ IsTransfer(c) /\ pc[c] = "done" /\ txs[c].status = "pending"
        /\ result[c] = [kind |-> "thrown",
                        message |-> <<"NFT transfer failed: ", "not confirmed">>]

StepsInOrder ==
    {<<"idle", "i_build">>, <<"idle", "done">>, <<"i_build", "i_await">>,
     <<"i_await", "done">>, <<"idle", "t_build">>, <<"t_build", "t_await">>,
     <<"t_await", "done">>}

IssuancesAreDistinct ==
    \A c \in Call, d \in Call :
        (c # d /\ IsIssue(c) /\ IsIssue(d)) =>
            /\ (Submitted(c) /\ Submitted(d)) => args[c].asset # args[d].asset
            /\ (result[c].kind = "Finalized" /\ result[d].kind = "Finalized") =>
                /\ result[c].asset # result[d].asset
                /\ getAssociatedTokenAddress(result[c].asset, args[c].owner)
                        # getAssociatedTokenAddress(result[d].asset, args[d].owner)
                /\ result[c].balance = 1 /\ result[d].balance = 1
                /\ \A e \in {c, d} :
                    (\A t \in Call : IsTransfer(t) /\ Submitted(t) =>
                                        args[t].nftAddress # result[e].asset) =>
                        Balance(ledger, getAssociatedTokenAddress(result[e].asset,
                                                                  args[e].owner)) = 1

\* C19 witness: two issuances for the same owner were interleaved, the call
\* that began second submitting first, and both returned Finalized.
IssuancesAreDistinctWitness ==
    \E c \in Call, d \in Call :
        /\ c < d /\ IsIssue(c) /\ IsIssue(d) /\ args[c].owner = args[d].owner
        /\ sequenceNumber[d] < sequenceNumber[c]
        /\ result[c].kind = "Finalized" /\ result[d].kind = "Finalized"

\* C20, as claimed: validation precedes every ledger call.  An issuance whose
\* descriptor has an empty name or a symbol longer than the allowed maximum
\* (and whose assertion verifies: one that does not is refused as
\* Unauthorized) generates no asset address, submits no transaction, leaves
\* nothing on the ledger and returns ValidationError.
ValidationPrecedesLedger ==
    \A c \in Call :
        ( /\ IsIssue(c)
          /\ args[c].name = "" \/ ExceedsMaximumLength(args[c].symbol)
          /\ args[c].assertion.intact /\ args[c].assertion.signer = args[c].owner ) =>
            /\ ~Submitted(c)
            /\ args[c].asset = 0
            /\ pc[c] = "done" => result[c].kind = "ValidationError"
            /\ \A asset \in DOMAIN ledger.metadata :
                    ledger.metadata[asset].name # args[c].name
                        \/ ledger.metadata[asset].symbol # args[c].symbol

\* C20 failing input: an asset whose metadata has an empty name is finalized
\* on the ledger.
UnvalidatedDescriptorOnLedger ==
    \E c \in Call :
        /\ IsIssue(c) /\ result[c].kind = "Finalized"
        /\ ledger.metadata[result[c].asset].name = ""

\* C20 failing input: an issuance with a symbol that is too long was
\* submitted, and it is the ledger that refused it.
UnvalidatedDescriptorSubmitted ==
    \E c \in Call :
        /\ IsIssue(c) /\ ExceedsMaximumLength(args[c].symbol)
        /\ result[c] = [kind |-> "SubmissionFailed", reason |-> "SymbolTooLong"]

\* C21: no silent retry.  A call submits its transaction at most once: once
\* submitted, the transaction's instructions, signers and sequence number
\* never change, a rejected transaction stays rejected, and the call never
\* goes back to building; so a call consumes at most one sequence number.
NoSilentRetry ==
    [][\A c \in Call :
        Submitted(c) =>
            /\ txs'[c].instrs = txs[c].instrs
            /\ txs'[c].signers = txs[c].signers
            /\ sequenceNumber'[c] = sequenceNumber[c]
            /\ pc'[c] \notin {"idle", "i_build", "t_build"}
            /\ Failed(c) => txs'[c].status = "failed"
            /\ Cardinality({n \in {sequenceNumber[c], sequenceNumber'[c]} : n > 0}) <= 1]_vars

\* C21 witness: the ledger rejected the transaction of a transfer for lack of
\* funds of the payer, the call has thrown, and it holds the one sequence
\* number it was given.
NoSilentRetryWitness ==
    \E c \in Call :
        /\ IsTransfer(c) /\ Failed(c) /\ pc[c] = "done"
        /\ txs[c].reason = "Attempt to debit an account but found no record of a prior credit"
        /\ Outcome(result[c]) = "Failed"
        /\ sequenceNumber[c] > 0

\* C22: rejection reasons pass through unchanged.  A call whose wait ends on
\* a transaction the ledger rejected reports the failure, never success and
\* never a timeout, and the reason it carries is the ledger's own; and every
\* failure a call reported carries the reason of its rejected transaction.
RejectionReasonPassesThrough ==
    [][\A c \in Call :
        /\ (WaitEnds(c) /\ txs[c].status = "failed") =>
                /\ Outcome(result'[c]) = "Failed"
                /\ OutcomeReason(result'[c]) = txs[c].reason
                /\ IsTransfer(c) =>
                        result'[c].message = <<"NFT transfer failed: ", txs[c].reason>>
        /\ Outcome(result[c]) = "Failed" =>
                /\ OutcomeReason(result[c]) = txs[c].reason
                /\ txs[c].reason # "none"
                /\ result'[c] = result[c]]_vars

\* C22 witness: a transfer whose payer holds nothing was rejected by the
\* token program, and the error the call threw carries that reason, which is
\* not the reason of a payer who cannot cover the fee.
RejectionReasonPassesThroughWitness ==
    \E c \in Call :
        /\ IsTransfer(c) /\ Outcome(result[c]) = "Failed"
        /\ result[c].message = <<"NFT transfer failed: ", txs[c].reason>>
        /\ txs[c].reason \notin
                {"none", "Attempt to debit an account but found no record of a prior credit"}

AssertionIsReusable ==
    \A c \in Call : IsIssue(c) =>
        /\ (result[c].kind = "Unauthorized")
                <=> (pc[c] = "done" /\ ~verify(args[c].assertion, args[c].owner))
        /\ \A d \in Call :
                (/\ d # c /\ IsIssue(d)
                 /\ args[d].assertion = args[c].assertion
                 /\ args[d].owner = args[c].owner
                 /\ Outcome(result[c]) = "Finalized"
                 /\ Outcome(result[d]) = "Finalized") =>
                    /\ result[c].asset # result[d].asset
                    /\ ledger.mints[result[c].asset].supply = 1
                    /\ ledger.mints[result[d].asset].supply = 1

\* C26 witness: two issue calls presented the same assertion for the same
\* owner, one after the other was finalized, and both are finalized with
\* two assets.
AssertionIsReusableWitness ==
    \E c \in Call, d \in Call :
        /\ c < d /\ IsIssue(c) /\ IsIssue(d)
        /\ args[c].assertion = args[d].assertion
        /\ args[c].owner = args[d].owner
        /\ Outcome(result[c]) = "Finalized" /\ Outcome(result[d]) = "Finalized"
        /\ result[c].asset # result[d].asset
        /\ Balance(ledger, getAssociatedTokenAddress(result[c].asset, args[c].owner)) = 1
        /\ Balance(ledger, getAssociatedTokenAddress(result[d].asset, args[d].owner)) = 1

\* C27: holding-account lifecycle.  A holding account that exists keeps
\* existing, for the same asset and owner, in every later state, emptied or
\* not: nothing closes it.  Every holding account's balance is 0 or 1.
HoldingAccountLifecycle ==
    [][/\ \A addr \in DOMAIN ledger.accounts :
            /\ addr \in DOMAIN ledger'.accounts
            /\ ledger'.accounts[addr].mint = ledger.accounts[addr].mint
            /\ ledger'.accounts[addr].owner = ledger.accounts[addr].owner
       /\ \A addr \in DOMAIN ledger'.accounts :
            ledger'.accounts[addr].amount \in {0, 1}]_vars

\* C27 witness: a finalized transfer emptied its source holding account, the
\* unit is in the recipient's, and the emptied account is still there.
HoldingAccountLifecycleWitness ==
    \E c \in Call :
        /\ IsTransfer(c) /\ Finalized(c)
        /\ args[c].key # args[c].recipient
        /\ fromTokenAccount(args[c]) \in DOMAIN ledger.accounts
        /\ Balance(ledger, fromTokenAccount(args[c])) = 0
        /\ Balance(ledger, toTokenAccount(args[c])) = 1

SurchargeExcludesNetworkFee ==
    \A k \in 1..Len(fees.estimates) :
        LET e == fees.estimates[k]
        IN  e.platform_fee = Percentage(e.mint_account_rent + e.metadata_account_rent
                                            + e.master_edition_rent)

\* C24, amended: the platform fee is the fixed percentage of the total
\* minting cost, which is the three rents plus the transaction fee: the
\* network fee is part of the base.  From the documented minimums it is the
\* documented platform fee.
SurchargeOnTotalMintingCost ==
    \A k \in 1..Len(fees.estimates) :
        LET e == fees.estimates[k]
        IN  /\ e.total_minting_cost = e.mint_account_rent + e.metadata_account_rent
                                        + e.master_edition_rent + e.transaction_fee
            /\ e.platform_fee = Percentage(e.total_minting_cost)
            /\ e.platform_fee * 100 <= e.total_minting_cost * PlatformFeePercent
            /\ e.total_minting_cost * PlatformFeePercent < (e.platform_fee + 1) * 100
            /\ fees.rent = DocumentedRent =>
                    /\ e.total_minting_cost = DocumentedTotalMintingCost
                    /\ e.platform_fee = DocumentedPlatformFee

\* C24 witness: the estimate from the documented minimums: its platform fee
\* is the documented one, and is not the percentage of the rents alone.
SurchargeOnTotalMintingCostWitness ==
    /\ fees.rent = DocumentedRent
    /\ Len(fees.estimates) >= 1
    /\ fees.estimates[1].platform_fee = DocumentedPlatformFee
    /\ fees.estimates[1].platform_fee #
            Percentage(MintAccountRent + MetadataAccountRent + MasterEditionRent)

\* C28 as stated: in both scripts a transfer is begun only on a response that
\* holds nft_address and transaction_signature, and a failed mint request or
\* a response that lacks either ends the run in the error path with no
\* transfer.
TransferOnlyAfterFullResponse ==
    LET full == /\ run.response.kind = "ok"
                /\ run.response.nft_address # 0
                /\ run.response.transaction_signature # 0
    IN  /\ (\E c \in Call : IsTransfer(c)) => full
        /\ (run.response.kind # "none" /\ ~full) =>
                /\ run.at = "error"
                /\ \A c \in Call : ~IsTransfer(c)
                /\ run.script = "colosseum" => run.exit = "status 1"

\* C28, amended: a transfer is begun only after the mint request has returned
\* a response that names the asset, and it is for that asset; in
\* generateColosseumNFT the response also holds transaction_signature.  When
\* the mint request fails or the response lacks nft_address, or lacks
\* transaction_signature in generateColosseumNFT, no transfer is begun and
\* the run is in its error path: generateColosseumNFT exits with status 1,
\* main ends after logging.
MintThenTransferOrdering ==
    LET refused == \/ run.response.kind = "error"
                   \/ run.response.nft_address = 0
                   \/ run.script = "colosseum" /\ run.response.transaction_signature = 0
    IN  /\ \A c \in Call : IsTransfer(c) =>
                /\ run.response.kind = "ok"
                /\ ~refused
                /\ args[c].nftAddress = run.response.nft_address
                /\ \E i \in Call : IsIssue(i) /\ pc[i] = "done"
                                     /\ result[i].asset = args[c].nftAddress
        /\ (run.response.kind # "none" /\ refused) =>
                /\ run.at = "error"
                /\ \A c \in Call : ~IsTransfer(c)
                /\ run.exit = IF run.script = "colosseum" THEN "status 1" ELSE "normal"
        /\ run.response.kind = "none" => \A c \in Call : ~IsTransfer(c)

\* C28 witness: the asset was minted and the response to generateColosseumNFT
\* named it without a transaction_signature: the script has exited with
\* status 1 and no transfer was begun.
MintThenTransferOrderingWitness ==
    /\ run.script = "colosseum"
    /\ run.response.kind = "ok"
    /\ run.response.nft_address \in DOMAIN ledger.mints
    /\ run.response.transaction_signature = 0
    /\ run.at = "error" /\ run.exit = "status 1"
    /\ \A c \in Call : ~IsTransfer(c)

\* C29: a verification that fails does not abort generateColosseumNFT.  Once
\* transferNFT has returned, the run is never in its error path; after
\* verifyNFTTransfer, whatever it found, the next step of the script reports
\* completion with the recipient as current owner and a normal exit.
VerificationNeverAborts ==
    [][\A c \in Call :
        (run.script = "colosseum" /\ IsTransfer(c) /\ Returned(c)) =>
            /\ run'.at # "error"
            /\ run'.exit # "status 1"
            /\ (run.at = "verify" /\ run'.at # "verify") =>
                    /\ verified[c] \in {"successful", "warning"}
                    /\ run'.at = "complete"
                    /\ run'.exit = "normal"
                    /\ run'.currentOwner = args[c].recipient]_vars

\* C29 witness: verifyNFTTransfer logged its warning and the script reported
\* completion with the recipient as current owner.
VerificationNeverAbortsWitness ==
    \E c \in Call :
        /\ run.script = "colosseum"
        /\ IsTransfer(c) /\ Returned(c)
        /\ verified[c] = "warning"
        /\ run.at = "complete" /\ run.exit = "normal"
        /\ run.currentOwner = args[c].recipient

====
